---- MODULE Spec2Model ----
(***************************************************************************)
(* n8n-mcp: the tool layer (tools/*.py), the remote client (client.py),    *)
(* the logger selection (config.py) and the server assembly (server.py)    *)
(* as one state machine. Spec drives the tools and the client directly;    *)
(* ServerSpec drives them through get_app and the application's lifespan.  *)
(*                                                                         *)
(* Python's None is the empty sequence <<>> and a present optional value   *)
(* x is <<x>>; strings are TLA+ strings and f-strings are \o.              *)
(* An asyncio task runs without interruption from one await that really    *)
(* suspends to the next: the request sent on the transport handle and      *)
(* aclose() of the handle are the two suspension points of the program.    *)
(***************************************************************************)
EXTENDS Integers, Sequences, FiniteSets, Bags, TLC

\* ---------------------------------------------------------------- bounds
\* tool calls that may be suspended on their request at the same time
MaxTasks == 1
\* transport handles the client may create in one run
MaxHandles == 2
\* close() calls that may be suspended in aclose() at the same time
MaxClosers == 2
\* tool calls of the assembled server that may be suspended at the same time
MaxServed == 2
\* times create_app may be run in one process
MaxRuns == 2


\* identifiers and workflow names the caller passes; new-workflow-id is the id
\* the mock create_workflow hands out
Ids == {"42", "new-workflow-id"}
Names == {"N", ""}

\* the input data handed to execute_workflow, and the secret payloads handed
\* to create_credential
Payload == [x |-> 1]
Secrets == {[password |-> "hunter2"], [password |-> "s3cret"]}

None == <<>>
Some(x) == <<x>>

\* limit's default in list_executions
DefaultLimit == 50

\* the limits list_executions is called with
Limits == {0, DefaultLimit}

\* a node and a connections mapping update_workflow is given
StartNode == [name |-> "Start", type |-> "n8n-nodes-base.start"]
Wiring == [Start |-> "End"]

\* ---------------------------------------------------------------- tools
WorkflowTools ==
  {"list_workflows", "get_workflow", "create_workflow", "update_workflow",
   "delete_workflow", "activate_workflow", "deactivate_workflow"}

ExecutionTools ==
  {"execute_workflow", "list_executions", "get_execution", "delete_execution"}

CredentialTools ==
  {"list_credentials", "get_credential", "create_credential",
   "delete_credential", "list_credential_types"}

Tools == WorkflowTools \cup ExecutionTools \cup CredentialTools

\* the tools that call a method of N8NClient (all but list_credential_types)
ClientOps == Tools \ {"list_credential_types"}

\* tools whose first parameter is the id of the resource they address
IdTools ==
  {"get_workflow", "update_workflow", "delete_workflow", "activate_workflow",
   "deactivate_workflow", "execute_workflow", "get_execution",
   "delete_execution", "get_credential", "delete_credential"}

\* tools that build a pydantic request model inside their try block
ModelTools == {"create_workflow", "update_workflow", "create_credential"}

\* The arguments of one call: id (None when the tool has no id parameter, or
\* when list_executions is given no workflow_id), name (None when the tool
\* takes none, or update_workflow is given none), data (the input data of
\* execute_workflow, None when not given; the secret payload of
\* create_credential) and valid: whether the request model the tool builds
\* from them passes pydantic's validation. get_workflow is called with
\* either id, the other tools with the one a caller picks. nodes and
\* connections are what update_workflow is given for them (None when
\* omitted), limit the limit of list_executions.
AllArgsOf(tool) ==
  [id : IF tool = "get_workflow" THEN {Some(i) : i \in Ids}
        ELSE IF tool \in IdTools THEN {Some("42")}
        ELSE IF tool = "list_executions" THEN {None, Some("42")}
        ELSE {None},
   name : IF tool = "create_workflow" THEN {Some(n) : n \in Names}
          ELSE IF tool = "create_credential" THEN {Some("N")}
          ELSE IF tool = "update_workflow" THEN {None, Some("N")}
          ELSE {None},
   data : IF tool = "execute_workflow" THEN {None, Some(Payload)}
          ELSE IF tool = "create_credential" THEN {Some(d) : d \in Secrets}
          ELSE {None},
   nodes : IF tool = "update_workflow" THEN {None, Some(<<StartNode>>)}
           ELSE {None},
   connections : IF tool = "update_workflow" THEN {None, Some(Wiring)}
                 ELSE {None},
   limit : IF tool = "list_executions" THEN {Some(l) : l \in Limits}
           ELSE {None},
   valid : IF tool \in ModelTools THEN BOOLEAN ELSE {TRUE}]

\* the fields update_workflow was given a value for
Supplied(a) == {f \in {"name", "nodes", "connections"} : a[f] # None}

\* The arguments the tools are called with: update_workflow is given none,
\* one or all three of its optional fields, and none when its request model
\* is rejected; list_executions is given limit 0 without a filter.
ArgsOf(tool) ==
  {a \in AllArgsOf(tool) :
     /\ tool = "update_workflow" =>
          /\ Cardinality(Supplied(a)) # 2
          /\ ~a.valid => Supplied(a) = {}
     /\ a.limit = Some(0) => a.id = None}

\* ---------------------------------------------------------------- models
\* Workflow(...).model_dump()
Workflow(id, name, active, nodes) ==
  [id |-> id, name |-> name, active |-> active, nodes |-> nodes,
   connections |-> <<>>, settings |-> <<>>, created_at |-> None,
   updated_at |-> None, tags |-> <<>>]

\* Execution(...)
Execution(id, workflow_id, status) ==
  [id |-> id, workflow_id |-> workflow_id, status |-> status,
   started_at |-> None, stopped_at |-> None, data |-> None, error |-> None]

\* Credential(...): no field for the secret data
Credential(id, name, type) ==
  [id |-> id, name |-> name, type |-> type, created_at |-> None,
   updated_at |-> None]

\* ToolResponse(success, message, data=None, error=None, next_steps=None)
ToolResponse(success, message, data, error, next_steps) ==
  [success |-> success, message |-> message, data |-> data, error |-> error,
   next_steps |-> next_steps]

\* an exception: its class and str(e)
Exc(type, msg) == [type |-> type, msg |-> msg]
str(e) == e.msg

\* the outcome of a client method: a value returned, or an exception raised
Returned(kind, v) == [ok |-> TRUE, kind |-> kind, value |-> v, exc |-> Exc("", "")]
Raised(e) == [ok |-> FALSE, kind |-> "raise", value |-> <<>>, exc |-> e]

\* ---------------------------------------------------------------- strings
\* sub occurs in s
Contains(s, sub) ==
  \E i \in 1..(Len(s) - Len(sub) + 1) : SubSeq(s, i, i + Len(sub) - 1) = sub

\* Python's x or d on an optional string: d when x is None or empty
OrElse(x, d) == IF x = None \/ x = Some("") THEN d ELSE x[1]

\* ---------------------------------------------------------------- request models
\* WorkflowCreate(name=name, nodes=nodes or [], connections=connections or {},
\*                active=active, tags=tags or [])
WorkflowCreate(a) ==
  [name |-> a.name[1], nodes |-> <<>>, connections |-> <<>>, settings |-> <<>>,
   active |-> FALSE, tags |-> <<>>]

\* WorkflowUpdate(name=name, nodes=nodes, connections=connections)
WorkflowUpdate(a) ==
  [name |-> a.name, nodes |-> a.nodes, connections |-> a.connections,
   settings |-> None, tags |-> None]

\* CredentialCreate(name=name, type=credential_type, data=data)
CredentialCreate(a) ==
  [name |-> a.name[1], type |-> "httpBasicAuth", data |-> a.data[1]]

\* ---------------------------------------------------------------- mock mode
_mock_list_workflows ==
  << Workflow("1", "Example Workflow", TRUE, <<StartNode>>),
     Workflow("2", "Test Workflow", FALSE, <<>>) >>

\* _mock_get_workflow with f"Workflow{workflow_id}"
_mock_get_workflow_noSpace(workflow_id) ==
  Workflow(workflow_id, "Workflow" \o workflow_id, TRUE, <<StartNode>>)

_mock_get_workflow(workflow_id) ==
  Workflow(workflow_id, "Workflow " \o workflow_id, TRUE, <<StartNode>>)

\* _mock_create_workflow naming the workflow after its id, as the other mocks do
_mock_create_workflow_idName(workflow) ==
  Workflow("new-workflow-id", "Workflow new-workflow-id", workflow.active,
           workflow.nodes)

_mock_create_workflow(workflow) ==
  Workflow("new-workflow-id", workflow.name, workflow.active, workflow.nodes)

_mock_update_workflow(workflow_id, updates) ==
  Workflow(workflow_id, OrElse(updates.name, "Workflow " \o workflow_id), TRUE,
           IF updates.nodes = None THEN <<>> ELSE updates.nodes[1])

_mock_delete_workflow(workflow_id) == TRUE

_mock_activate_workflow(workflow_id, active) ==
  Workflow(workflow_id, "Workflow " \o workflow_id, active, <<>>)

_mock_execute_workflow(workflow_id, data) ==
  [Execution("exec-1", workflow_id, "success") EXCEPT !.data = data]

_mock_list_executions(workflow_id, limit) ==
  << Execution("exec-1", OrElse(workflow_id, "1"), "success") >>

_mock_get_execution(execution_id) == Execution(execution_id, "1", "success")

_mock_list_credentials ==
  << Credential("1", "HTTP Basic", "httpBasicAuth"),
     Credential("2", "API Key", "httpQueryAuth") >>

_mock_get_credential(credential_id) ==
  Credential(credential_id, "Credential " \o credential_id, "httpBasicAuth")

_mock_create_credential(credential) ==
  Credential("new-cred-id", credential.name, credential.type)

\* What a client method returns when settings.mock_mode is set: the branch
\* each method takes before it touches the transport.
MockResult(op, a) ==
  CASE op = "list_workflows" -> Returned("workflows", _mock_list_workflows)
    [] op = "get_workflow" -> Returned("workflow", _mock_get_workflow(a.id[1]))
    [] op = "create_workflow" ->
         Returned("workflow", _mock_create_workflow(WorkflowCreate(a)))
    [] op = "update_workflow" ->
         Returned("workflow", _mock_update_workflow(a.id[1], WorkflowUpdate(a)))
    [] op = "delete_workflow" -> Returned("bool", _mock_delete_workflow(a.id[1]))
    [] op = "activate_workflow" ->
         Returned("workflow", _mock_activate_workflow(a.id[1], TRUE))
    [] op = "deactivate_workflow" ->
         Returned("workflow", _mock_activate_workflow(a.id[1], FALSE))
    [] op = "execute_workflow" ->
         Returned("execution", _mock_execute_workflow(a.id[1], a.data))
    [] op = "list_executions" ->
         Returned("executions", _mock_list_executions(a.id, a.limit[1]))
    [] op = "get_execution" -> Returned("execution", _mock_get_execution(a.id[1]))
    [] op = "delete_execution" -> Returned("bool", TRUE)
    [] op = "list_credentials" -> Returned("credentials", _mock_list_credentials)
    [] op = "get_credential" -> Returned("credential", _mock_get_credential(a.id[1]))
    [] op = "create_credential" ->
         Returned("credential", _mock_create_credential(CredentialCreate(a)))
    [] op = "delete_credential" -> Returned("bool", TRUE)

\* ---------------------------------------------------------------- live mode
\* how many items the remote puts in a list response
ListLengths == {1}

ListOps == {"list_workflows", "list_executions", "list_credentials"}
DeleteOps == {"delete_workflow", "delete_execution", "delete_credential"}

\* model_dump() of a model whose fields are all optional: every field, the
\* unset ones as null
model_dump_all(m) == [f \in DOMAIN m |-> IF m[f] = None THEN "null" ELSE m[f][1]]

\* model_dump(exclude_none=True) of a model whose fields are all optional:
\* the fields that are set, with their values
model_dump_exclude_none(m) ==
  [f \in {g \in DOMAIN m : m[g] # None} |-> m[f][1]]

\* The request each client method puts on the wire: its method, its path
\* under /api/v1, its JSON body (None when it has none) and its query
\* parameters. The create models have no optional field, so their
\* model_dump(exclude_none=True) is the model itself.
Request(op, a) ==
  LET req(method, path, json, params) ==
        [method |-> method, path |-> path, json |-> json, params |-> params]
  IN CASE op = "list_workflows" -> req("GET", "/workflows", None, <<>>)
       [] op = "get_workflow" -> req("GET", "/workflows/" \o a.id[1], None, <<>>)
       [] op = "create_workflow" ->
            req("POST", "/workflows", Some(WorkflowCreate(a)), <<>>)
       [] op = "update_workflow" ->
            req("PATCH", "/workflows/" \o a.id[1],
                Some(model_dump_exclude_none(WorkflowUpdate(a))), <<>>)
       [] op = "delete_workflow" ->
            req("DELETE", "/workflows/" \o a.id[1], None, <<>>)
       [] op = "activate_workflow" ->
            req("PATCH", "/workflows/" \o a.id[1], Some([active |-> TRUE]), <<>>)
       [] op = "deactivate_workflow" ->
            req("PATCH", "/workflows/" \o a.id[1], Some([active |-> FALSE]), <<>>)
       [] op = "execute_workflow" ->
            req("POST", "/workflows/" \o a.id[1] \o "/execute",
                Some(IF a.data = None THEN <<>> ELSE [data |-> a.data[1]]), <<>>)
       [] op = "list_executions" ->
            req("GET", "/executions", None,
                IF a.id = None THEN [limit |-> a.limit[1]]
                ELSE [limit |-> a.limit[1], workflowId |-> a.id[1]])
       [] op = "get_execution" -> req("GET", "/executions/" \o a.id[1], None, <<>>)
       [] op = "delete_execution" ->
            req("DELETE", "/executions/" \o a.id[1], None, <<>>)
       [] op = "list_credentials" -> req("GET", "/credentials", None, <<>>)
       [] op = "get_credential" ->
            req("GET", "/credentials/" \o a.id[1], None, <<>>)
       [] op = "create_credential" ->
            req("POST", "/credentials", Some(CredentialCreate(a)), <<>>)
       [] op = "delete_credential" ->
            req("DELETE", "/credentials/" \o a.id[1], None, <<>>)

\* What comes back for one request: a network failure (a timeout), or a
\* response with a status and a JSON body. The body either has no "data" key,
\* or has one holding an object or a list of n objects.
NoDataBody == [hasData |-> FALSE, shape |-> "object", n |-> 0]

Bodies ==
  {NoDataBody, [hasData |-> TRUE, shape |-> "object", n |-> 0]}
  \cup {[hasData |-> TRUE, shape |-> "list", n |-> k] : k \in ListLengths}

Exchanges ==
  {[kind |-> "error", status |-> 0, body |-> NoDataBody],
   [kind |-> "response", status |-> 404, body |-> NoDataBody]}
  \cup {[kind |-> "response", status |-> 200, body |-> b] : b \in Bodies}

\* the kind of value each client method returns
KindOf(op) ==
  CASE op = "list_workflows" -> "workflows"
    [] op = "list_executions" -> "executions"
    [] op = "list_credentials" -> "credentials"
    [] op \in DeleteOps -> "bool"
    [] op \in {"execute_workflow", "get_execution"} -> "execution"
    [] op \in {"get_credential", "create_credential"} -> "credential"
    [] OTHER -> "workflow"

\* The resource the remote describes in the "data" of a response. The remote
\* owns these values: it echoes the id it was asked for and names things itself.
RemoteObject(op, a) ==
  CASE KindOf(op) = "workflow" ->
         Workflow(IF a.id = None THEN "7" ELSE a.id[1], "Remote flow",
                  op = "activate_workflow", <<>>)
    [] KindOf(op) = "execution" ->
         Execution(IF op = "get_execution" THEN a.id[1] ELSE "e-9",
                   IF op = "get_execution" THEN "7" ELSE a.id[1], "running")
    [] KindOf(op) = "credential" ->
         Credential(IF a.id = None THEN "c-3" ELSE a.id[1], "Remote cred",
                    "httpBasicAuth")

RemoteItem(op, a) ==
  CASE op = "list_workflows" -> Workflow("7", "Remote flow", FALSE, <<>>)
    [] op = "list_executions" -> Execution("e-9", OrElse(a.id, "7"), "running")
    [] op = "list_credentials" -> Credential("c-3", "Remote cred", "httpBasicAuth")

\* The JSON object the remote sends for a resource: the resource's fields
\* and whatever else the remote chooses to include, here a version tag and
\* the payload it was sent, echoed back.
RemoteJson(obj, a) == obj @@ ("data" :> a.data) @@ ("versionId" :> "v1")

\* the fields each pydantic model declares
ModelFields(kind) ==
  CASE kind \in {"workflow", "workflows"} -> DOMAIN Workflow("", "", FALSE, <<>>)
    [] kind \in {"execution", "executions"} -> DOMAIN Execution("", "", "")
    [] kind \in {"credential", "credentials"} -> DOMAIN Credential("", "", "")

\* Model(**obj) keeping every key of obj, as with extra="allow"
Validate_allowExtra(kind, obj) == obj

\* Model(**obj): pydantic's BaseModel ignores the keys that are no field of
\* the model
Validate(kind, obj) == [f \in ModelFields(kind) |-> obj[f]]

\* response.raise_for_status(): HTTPStatusError unless the status is 2xx
raise_for_status(x) == x.status \notin 200..299

\* [Model(**item) for item in data.get("data", [])]: a body with no "data" key
\* reads as the empty list; an object where the list should be is iterated by
\* its keys, and Model(**key) is a TypeError.
ParseList(op, a, body) ==
  IF ~body.hasData THEN Returned(KindOf(op), <<>>)
  ELSE IF body.shape = "list"
       THEN Returned(KindOf(op),
              [i \in 1..body.n |->
                 Validate(KindOf(op), RemoteJson(RemoteItem(op, a), a))])
       ELSE Raised(Exc("TypeError", "argument after ** must be a mapping"))

\* Model(**data.get("data", {})): a body with no "data" key builds the model
\* from no fields, which the required fields (id, name, ...) reject.
ParseObject(op, a, body) ==
  IF ~body.hasData
  THEN Raised(Exc("ValidationError", "validation errors: Field required"))
  ELSE IF body.shape = "object"
       THEN Returned(KindOf(op),
                     Validate(KindOf(op), RemoteJson(RemoteObject(op, a), a)))
       ELSE Raised(Exc("TypeError", "argument after ** must be a mapping"))

\* The rest of a client method once its request has come back: x is what the
\* transport delivered. Delete methods never read the body.
LiveResult(op, a, x) ==
  IF x.kind = "error" THEN Raised(Exc("ReadTimeout", ""))
  ELSE IF raise_for_status(x)
       THEN Raised(Exc("HTTPStatusError",
                       "Client error '" \o ToString(x.status) \o "'"))
  ELSE IF op \in DeleteOps THEN Returned("bool", TRUE)
  ELSE IF op \in ListOps THEN ParseList(op, a, x.body)
  ELSE ParseObject(op, a, x.body)

\* ---------------------------------------------------------------- tools: envelopes
\* every tool speaking of workflows
Noun_allWorkflow(tool) == "workflow"

\* the noun each tool uses for its resource
Noun(tool) ==
  IF tool \in WorkflowTools \/ tool = "execute_workflow" THEN "workflow"
  ELSE IF tool \in ExecutionTools THEN "execution"
  ELSE "credential"

credential_types ==
  [httpBasicAuth |-> "HTTP Basic Authentication",
   httpQueryAuth |-> "HTTP Query Authentication (API key in URL)",
   httpHeaderAuth |-> "HTTP Header Authentication",
   oAuth2Api |-> "OAuth2 Authentication",
   jwtAuth |-> "JWT Authentication",
   slackApi |-> "Slack API",
   googleApi |-> "Google API OAuth2",
   githubApi |-> "GitHub API",
   aws |-> "AWS Credentials",
   smtp |-> "SMTP Email Credentials",
   mysql |-> "MySQL Database",
   postgres |-> "PostgreSQL Database",
   redis |-> "Redis Database",
   ssh |-> "SSH Credentials"]

\* The envelope each tool returns at the end of its try block; v is the value
\* the client method returned.
SuccessResponse(tool, a, v) ==
  CASE tool \in ListOps ->
         ToolResponse(TRUE,
           "Found " \o ToString(Len(v)) \o " " \o Noun(tool) \o "s",
           Some((Noun(tool) \o "s" :> v) @@ ("count" :> Len(v))), None, None)
    [] tool \in {"get_workflow", "get_credential"} ->
         ToolResponse(TRUE, "Retrieved " \o Noun(tool) \o ": " \o v.name,
           Some(Noun(tool) :> v), None, None)
    [] tool = "create_workflow" ->
         ToolResponse(TRUE, "Created workflow: " \o v.name,
           Some(Noun(tool) :> v), None,
           Some(<<"Add nodes with update_workflow",
                  "Activate with activate_workflow",
                  "Execute with execute_workflow">>))
    [] tool = "create_credential" ->
         ToolResponse(TRUE, "Created credential: " \o v.name,
           Some(Noun(tool) :> v), None, None)
    [] tool = "update_workflow" ->
         ToolResponse(TRUE, "Updated workflow: " \o v.name,
           Some(Noun(tool) :> v), None, None)
    [] tool \in DeleteOps ->
         ToolResponse(TRUE, "Deleted " \o Noun(tool) \o " " \o a.id[1],
           Some(Noun(tool) \o "_id" :> a.id[1]), None, None)
    [] tool = "activate_workflow" ->
         ToolResponse(TRUE, "Activated workflow: " \o v.name,
           Some([workflow_id |-> a.id[1], active |-> TRUE]), None, None)
    [] tool = "deactivate_workflow" ->
         ToolResponse(TRUE, "Deactivated workflow: " \o v.name,
           Some([workflow_id |-> a.id[1], active |-> FALSE]), None, None)
    [] tool = "execute_workflow" ->
         ToolResponse(TRUE, "Executed workflow, status: " \o v.status,
           Some([execution_id |-> v.id, workflow_id |-> v.workflow_id,
                 status |-> v.status, data |-> v.data, error |-> v.error]),
           None,
           Some(<<"Check status with get_execution", "View results in n8n UI">>))
    [] tool = "get_execution" ->
         ToolResponse(TRUE, "Execution status: " \o v.status,
           Some(Noun(tool) :> v), None, None)
    [] tool = "list_credential_types" ->
         ToolResponse(TRUE, "Common credential types",
           Some([credential_types |-> credential_types]), None, None)

\* the words of each tool's failure message
FailedAction(tool) ==
  CASE tool = "list_workflows" -> "Failed to list workflows"
    [] tool = "get_workflow" -> "Failed to get workflow"
    [] tool = "create_workflow" -> "Failed to create workflow"
    [] tool = "update_workflow" -> "Failed to update workflow"
    [] tool = "delete_workflow" -> "Failed to delete workflow"
    [] tool = "activate_workflow" -> "Failed to activate workflow"
    [] tool = "deactivate_workflow" -> "Failed to deactivate workflow"
    [] tool = "execute_workflow" -> "Failed to execute workflow"
    [] tool = "list_executions" -> "Failed to list executions"
    [] tool = "get_execution" -> "Failed to get execution"
    [] tool = "delete_execution" -> "Failed to delete execution"
    [] tool = "list_credentials" -> "Failed to list credentials"
    [] tool = "get_credential" -> "Failed to get credential"
    [] tool = "create_credential" -> "Failed to create credential"
    [] tool = "delete_credential" -> "Failed to delete credential"

\* FailureResponse with a hint in next_steps
FailureResponse_withSteps(tool, a, e) ==
  ToolResponse(FALSE, FailedAction(tool), None, Some(str(e)),
               Some(<<"Retry the call">>))

\* FailureResponse with the arguments echoed in data
FailureResponse_withData(tool, a, e) ==
  ToolResponse(FALSE, FailedAction(tool), Some([args |-> a]), Some(str(e)), None)

\* The envelope each tool's except handler returns for the exception e
FailureResponse(tool, a, e) ==
  ToolResponse(FALSE,
    IF tool \in IdTools THEN FailedAction(tool) \o " " \o a.id[1]
    ELSE FailedAction(tool),
    None, Some(str(e)), None)

\* ---------------------------------------------------------------- logging
\* Levels the root logger can have (setup_logging, or logging's default);
\* CRITICAL behaves as WARNING does for info() and as no logger at all for
\* error(), DEBUG as INFO.
LogLevels == {"INFO", "WARNING"}

\* get_logger_instance: oneiric's structured logger when oneiric imports,
\* else logging.getLogger(name)
LoggerKinds == {"oneiric", "stdlib"}

\* list_credential_types with a logger.info(..., count=...) of its own
InfoKwargTools_withTypes == Tools \ {"list_workflows", "list_credentials"}

\* tools whose logger.info call passes keyword arguments (workflow_id=..., name=...)
InfoKwargTools == Tools \ {"list_workflows", "list_credentials", "list_credential_types"}

\* logging.Logger.info(msg, **kwargs) hands kwargs to Logger._log, which takes
\* none but exc_info, extra, stack_info and stacklevel: a TypeError, raised
\* only when the level is enabled. The structured logger takes any keyword.
InfoRaises(lg, tool) ==
  lg.kind = "stdlib" /\ lg.level \in {"DEBUG", "INFO"} /\ tool \in InfoKwargTools

\* logger.error("Failed to ...", error=str(e)): every handler passes a keyword
ErrorRaises(lg) ==
  lg.kind = "stdlib" /\ lg.level \in {"DEBUG", "INFO", "WARNING", "ERROR"}

LoggerTypeError ==
  Exc("TypeError", "Logger._log() got an unexpected keyword argument")

\* ---------------------------------------------------------------- state
VARIABLES
  mock_mode,   \* settings.mock_mode
  logging,     \* which logger get_logger_instance returned, and its level
  _client,     \* N8NClient._client: None or Some(handle)
  handles,     \* every handle the client has created: "open" or "closed"
  closing,     \* the number of close() calls suspended in aclose()
  inflight,    \* the tool calls suspended on their request: a bag of calls
  ret,         \* what the step just taken handed back to the caller of a tool
  _app,        \* server._app: None or Some(the FastMCP application)
  assembly,    \* what the runs of create_app have built in this process
  lifespan     \* where the application's lifespan context manager stands

vars ==
  <<mock_mode, logging, _client, handles, closing, inflight, ret, _app,
    assembly, lifespan>>

\* the state of server.py
server == <<_app, assembly, lifespan>>

NoArgs ==
  [id |-> None, name |-> None, data |-> None, nodes |-> None,
   connections |-> None, limit |-> None, valid |-> TRUE]

\* a tool call suspended at the await of its request
Awaiting(tool, a) == [tool |-> tool, args |-> a]

\* No tool call ended in this step
NoRet ==
  [kind |-> "none", tool |-> "", args |-> NoArgs, response |-> None,
   exc |-> None, failure |-> None, result |-> None, exchange |-> None,
   calls |-> 0, requests |-> 0]

\* close() returned in this step
CloseRet == [NoRet EXCEPT !.kind = "closed"]

\* What one tool call did before it ended: result is what its client method
\* returned or raised (None when it called none), exchange what the transport
\* delivered for its request (None when it sent none), failure the exception
\* its except handler caught (None on the success path), calls the number of
\* client methods it invoked and requests the number of HTTP requests it put
\* on the wire.
Trail(result, exchange, failure, calls, requests) ==
  [result |-> result, exchange |-> exchange, failure |-> failure,
   calls |-> calls, requests |-> requests]

NoTrail == Trail(None, None, None, 0, 0)

\* A tool call returned the envelope r
RetEnvelope(tool, a, r, tr) ==
  [kind |-> "returned", tool |-> tool, args |-> a, response |-> Some(r),
   exc |-> None, failure |-> tr.failure, result |-> tr.result,
   exchange |-> tr.exchange, calls |-> tr.calls, requests |-> tr.requests]

\* A tool call raised e to its caller
RetRaise(tool, a, e, tr) ==
  [kind |-> "raised", tool |-> tool, args |-> a, response |-> None,
   exc |-> Some(e), failure |-> tr.failure, result |-> tr.result,
   exchange |-> tr.exchange, calls |-> tr.calls, requests |-> tr.requests]

\* The except handler of a tool: logger.error(..., error=str(e)), then the
\* failed envelope.
Handler(lg, tool, a, e, tr) ==
  IF ErrorRaises(lg)
  THEN RetRaise(tool, a, LoggerTypeError, [tr EXCEPT !.failure = Some(e)])
  ELSE RetEnvelope(tool, a, FailureResponse(tool, a, e),
                   [tr EXCEPT !.failure = Some(e)])

\* The rest of a tool's try block once its client method has returned or
\* raised r
Finish(lg, tool, a, r, tr) ==
  IF r.ok
  THEN RetEnvelope(tool, a, SuccessResponse(tool, a, r.value),
                   [tr EXCEPT !.result = Some(r)])
  ELSE Handler(lg, tool, a, r.exc, [tr EXCEPT !.result = Some(r)])

\* server.py before create_app has run: no run of create_app, no client, and
\* no registration group has registered its tools
NotAssembled == [runs |-> 0, clients |-> 0, registered |-> <<>>]

\* the lifespan has not been entered
NotEntered == [phase |-> "idle", how |-> "", closed |-> FALSE]

Init ==
  /\ mock_mode \in BOOLEAN
  /\ logging \in {lg \in [kind : LoggerKinds, level : LogLevels] :
                    lg.kind = "oneiric" => lg.level = "INFO"}
  /\ _client = None
  /\ handles = <<>>
  /\ closing = 0
  /\ inflight = EmptyBag
  /\ ret = NoRet
  /\ _app = None
  /\ assembly = NotAssembled
  /\ lifespan = NotEntered

\* ---------------------------------------------------------------- client
\* if self.settings.mock_mode: return self._mock_...: every client method
\* takes its mock branch before it asks for the transport
\* delete_execution without its mock branch
UsesTransport_noMockBranch(mock, op) == ~mock \/ op = "delete_execution"

UsesTransport(mock, op) == ~mock

\* N8NClient._ensure_client: a new handle when there is none, else the one held
_ensure_client(c, hs) ==
  IF c = None
  THEN [client |-> Some(Len(hs) + 1), handles |-> Append(hs, "open")]
  ELSE [client |-> c, handles |-> hs]

\* httpx refuses to send on a client whose aclose() has begun
ClosedError ==
  Exc("RuntimeError", "Cannot send a request, as the client has been closed.")

\* close() that keeps the closed handle
AfterAclose_keeps(c) == c

\* N8NClient.close, after aclose() has come back: self._client = None
AfterAclose(c) == None

\* ---------------------------------------------------------------- actions
\* A new task runs the tool with arguments a from its first line to its first
\* suspension: logger.info, the request model, the client method up to the
\* request it sends. In mock mode, and on every path that fails before the
\* request, the call ends in this step.
Call(tool, a) ==
  /\ UNCHANGED <<mock_mode, logging, closing>>
  /\ IF InfoRaises(logging, tool)
     THEN /\ ret' = RetRaise(tool, a, LoggerTypeError, NoTrail)
          /\ UNCHANGED <<_client, handles, inflight>>
     ELSE IF tool = "list_credential_types"
     THEN /\ ret' = RetEnvelope(tool, a, SuccessResponse(tool, a, <<>>), NoTrail)
          /\ UNCHANGED <<_client, handles, inflight>>
     ELSE IF tool \in ModelTools /\ ~a.valid
     THEN /\ ret' = Handler(logging, tool, a,
                      Exc("ValidationError", "validation error for request model"),
                      NoTrail)
          /\ UNCHANGED <<_client, handles, inflight>>
     ELSE IF ~UsesTransport(mock_mode, tool)
     THEN /\ ret' = Finish(logging, tool, a, MockResult(tool, a),
                           Trail(None, None, None, 1, 0))
          /\ UNCHANGED <<_client, handles, inflight>>
     ELSE LET e == _ensure_client(_client, handles)
              h == e.client[1]
          IN /\ Len(e.handles) <= MaxHandles
             /\ _client' = e.client
             /\ handles' = e.handles
             /\ IF e.handles[h] = "closed"
                THEN /\ ret' = Finish(logging, tool, a, Raised(ClosedError),
                                      Trail(None, None, None, 1, 0))
                     /\ UNCHANGED inflight
                ELSE /\ inflight' = inflight (+) SetToBag({Awaiting(tool, a)})
                     /\ ret' = NoRet

\* Receive with the arguments kept in one place for all the calls in flight:
\* the call that resumes finds those of any of them
Receive_sharedFrame(c, x) ==
  /\ BagIn(c, inflight)
  /\ inflight' = inflight (-) SetToBag({c})
  /\ \E d \in BagToSet(inflight) :
       ret' = Finish(logging, d.tool, d.args, LiveResult(d.tool, d.args, x),
                     Trail(None, Some(x), None, 1, 1))
  /\ UNCHANGED <<mock_mode, logging, _client, handles, closing>>

\* The transport delivers x for the request of the suspended call c, and the
\* call runs to its end: raise_for_status, the parse of the body, the envelope.
Receive(c, x) ==
  /\ BagIn(c, inflight)
  /\ inflight' = inflight (-) SetToBag({c})
  /\ ret' = Finish(logging, c.tool, c.args, LiveResult(c.tool, c.args, x),
                   Trail(None, Some(x), None, 1, 1))
  /\ UNCHANGED <<mock_mode, logging, _client, handles, closing>>

\* close() with no handle: nothing to do
CloseNoHandle ==
  /\ _client = None
  /\ ret' = CloseRet
  /\ UNCHANGED <<mock_mode, logging, _client, handles, closing, inflight>>

\* close() with a handle, up to the await: aclose() marks the handle closed
\* and suspends
CloseBegin ==
  /\ _client # None
  /\ closing < MaxClosers
  /\ handles' = [handles EXCEPT ![_client[1]] = "closed"]
  /\ closing' = closing + 1
  /\ ret' = NoRet
  /\ UNCHANGED <<mock_mode, logging, _client, inflight>>

\* close() resumes after aclose() and drops the handle it holds now
CloseEnd ==
  /\ closing > 0
  /\ closing' = closing - 1
  /\ _client' = AfterAclose(_client)
  /\ ret' = CloseRet
  /\ UNCHANGED <<mock_mode, logging, handles, inflight>>

\* The tools registered against a client of their own, without server.py:
\* tool calls and close() calls arrive in any order.
Next ==
  \/ \E tool \in Tools : \E a \in ArgsOf(tool) :
       BagCardinality(inflight) < MaxTasks /\ Call(tool, a) /\ UNCHANGED server
  \/ \E c \in BagToSet(inflight), x \in Exchanges :
       Receive(c, x) /\ UNCHANGED server
  \/ CloseNoHandle /\ UNCHANGED server
  \/ CloseBegin /\ UNCHANGED server
  \/ CloseEnd /\ UNCHANGED server

Spec == Init /\ [][Next]_vars

\* ---------------------------------------------------------------- server.py
\* logger.info("Initializing n8n-mcp server", version=..., n8n_url=...,
\* mock_mode=...) in create_app: keyword arguments again, after setup_logging
\* has set the level
ServerInfoRaises(lg) == lg.kind = "stdlib" /\ lg.level \in {"DEBUG", "INFO"}

\* the registration groups in the order create_app calls them, and the tools
\* each registers
Groups == <<"workflow", "execution", "credential">>

ToolsOf(group) ==
  CASE group = "workflow" -> WorkflowTools
    [] group = "execution" -> ExecutionTools
    [] group = "credential" -> CredentialTools

\* create_app() run when the process has assembled asm so far: the first
\* logger.info raises, or a FastMCP application and one N8NClient are built
\* and each group registers its tools against that client.
create_app(asm, lg) ==
  IF ServerInfoRaises(lg)
  THEN [raised |-> TRUE, app |-> None, assembly |-> [asm EXCEPT !.runs = @ + 1]]
  ELSE [raised |-> FALSE, app |-> Some("n8n-mcp"),
        assembly |->
          [runs |-> asm.runs + 1, clients |-> asm.clients + 1,
           registered |->
             asm.registered \o
               [i \in 1..Len(Groups) |->
                  [group |-> Groups[i], client |-> asm.clients + 1,
                   tools |-> ToolsOf(Groups[i])]]]]

\* the ways to reach the application: get_app(), and the module attributes
\* app and http_app that __getattr__ resolves through get_app()
AppNames == {"get_app", "app", "http_app"}

\* a lookup returned the application
AppRet(name) == [NoRet EXCEPT !.kind = "app", !.tool = name]

\* a lookup raised e
AppRaise(name, e) == [NoRet EXCEPT !.kind = "raised", !.tool = name, !.exc = Some(e)]

\* get_app(), called directly or through __getattr__(name): create_app runs
\* when _app is None, and _app is assigned only when it returns
get_app(name) ==
  /\ IF _app = None
     THEN /\ assembly.runs < MaxRuns
          /\ LET r == create_app(assembly, logging)
             IN /\ _app' = r.app
                /\ assembly' = r.assembly
                /\ ret' = IF r.raised THEN AppRaise(name, LoggerTypeError)
                          ELSE AppRet(name)
     ELSE /\ ret' = AppRet(name)
          /\ UNCHANGED <<_app, assembly>>
  /\ UNCHANGED <<mock_mode, logging, _client, handles, closing, inflight, lifespan>>

\* The runtime enters the lifespan create_app installed: the body runs
LifespanEnter ==
  /\ _app # None
  /\ lifespan.phase \in {"idle", "exited"}
  /\ lifespan' = [phase |-> "running", how |-> "", closed |-> FALSE]
  /\ ret' = NoRet
  /\ UNCHANGED <<mock_mode, logging, _client, handles, closing, inflight, _app,
                 assembly>>

\* a lifespan that closes the client after the yield, without try/finally
LifespanCloses_noFinally(how) == how = "normal"

\* try: yield state / finally: await client.close(): the close runs however
\* the body ended
LifespanCloses(how) == TRUE

\* The body of the lifespan ends, normally or with an exception, and the
\* finally clause runs client.close() up to its await
LifespanEnd(how) ==
  /\ lifespan.phase = "running"
  /\ UNCHANGED <<_app, assembly>>
  /\ IF LifespanCloses(how)
     THEN \/ /\ CloseNoHandle
             /\ lifespan' = [phase |-> "exited", how |-> how, closed |-> TRUE]
          \/ /\ CloseBegin
             /\ lifespan' = [phase |-> "closing", how |-> how, closed |-> FALSE]
     ELSE /\ lifespan' = [phase |-> "exited", how |-> how, closed |-> FALSE]
          /\ ret' = NoRet
          /\ UNCHANGED <<mock_mode, logging, _client, handles, closing, inflight>>

\* aclose() comes back, close() drops the handle and the lifespan exits
LifespanCloseEnd ==
  /\ lifespan.phase = "closing"
  /\ CloseEnd
  /\ lifespan' = [lifespan EXCEPT !.phase = "exited", !.closed = TRUE]
  /\ UNCHANGED <<_app, assembly>>

\* the tools the runtime is asked for while the server runs: one that reads
\* by id, one that lists, one that builds a request model, and the one that
\* needs no client
Served ==
  {"get_workflow", "list_executions", "create_credential", "list_credential_types"}

\* The assembled server: the application is looked up, the runtime enters
\* and leaves the lifespan, and tool calls arrive once the tools are
\* registered. Only the lifespan closes the client.
ServerNext ==
  \/ \E name \in AppNames : get_app(name)
  \/ LifespanEnter
  \/ \E how \in {"normal", "raised"} : LifespanEnd(how)
  \/ LifespanCloseEnd
  \/ \E tool \in Served : \E a \in ArgsOf(tool) :
       /\ _app # None
       /\ BagCardinality(inflight) < MaxServed
       /\ Call(tool, a)
       /\ UNCHANGED server
  \/ \E c \in BagToSet(inflight), x \in Exchanges :
       Receive(c, x) /\ UNCHANGED server

ServerSpec == Init /\ [][ServerNext]_vars

\* ---------------------------------------------------------------- properties
Ended == ret.kind \in {"returned", "raised"}

\* C1: every envelope a tool returns is either success=true with data
\* populated and error absent, or success=false with error populated and data
\* absent.
C1_EnvelopeExactlyOne ==
  ret.kind = "returned" =>
    LET r == ret.response[1]
    IN \/ r.success /\ r.data # None /\ r.error = None
       \/ ~r.success /\ r.error # None /\ r.data = None

\* a failed envelope for a 404, in live mode
C1_Witness ==
  /\ ret.kind = "returned"
  /\ ret.exchange # None
  /\ ret.exchange[1].status = 404
  /\ ~ret.response[1].success

\* C2: no tool call raises to its caller, whatever fails and whichever logger
\* get_logger_instance returned.
C2_NeverRaises == ret.kind # "raised"

\* C3: when the request model or the client method of a tool fails, the
\* tool returns success=false, error = str(failure), a message with the
\* failed action and the id argument, and neither data nor next_steps.
C3_FailureEnvelope ==
  ret.failure # None =>
    /\ ret.kind = "returned"
    /\ LET r == ret.response[1]
       IN /\ ~r.success
          /\ r.error = Some(str(ret.failure[1]))
          /\ Contains(r.message, "Failed to")
          /\ Contains(r.message, Noun(ret.tool))
          /\ ret.tool \in IdTools => Contains(r.message, ret.args.id[1])
          /\ r.data = None
          /\ r.next_steps = None

\* the body a client method expects: {"data": [...]} for a list method,
\* {"data": {...}} for the others
ExpectedShape(op, body) ==
  body.hasData /\ body.shape = (IF op \in ListOps THEN "list" ELSE "object")

\* C4: in live mode a 2xx response whose body lacks the shape the method
\* expects makes the client method raise (stated for the methods that read
\* the body: the list, get, create, update, activate and execute methods).
C4_ShapeMismatchFails ==
  (/\ Ended
   /\ ret.exchange # None
   /\ ret.exchange[1].kind = "response"
   /\ ~raise_for_status(ret.exchange[1])
   /\ ret.tool \notin DeleteOps
   /\ ~ExpectedShape(ret.tool, ret.exchange[1].body))
  => ~ret.result[1].ok

\* C5: in live mode every call of a client-backed tool with valid arguments
\* invokes its client method once and puts one request on the wire.
C5_OneRequestPerCall ==
  (Ended /\ ~mock_mode /\ ret.tool \in ClientOps /\ ret.args.valid)
  => ret.calls = 1 /\ ret.requests = 1

\* C6: in mock mode no client method creates a transport handle or sends a
\* request: the handle stays unset.
C6_MockNoNetwork ==
  mock_mode =>
    /\ _client = None
    /\ handles = <<>>
    /\ inflight = EmptyBag
    /\ ret.requests = 0
    /\ ret.exchange = None

\* delete_execution has run its client method in mock mode
C6_Witness ==
  /\ mock_mode
  /\ ret.kind = "returned"
  /\ ret.tool = "delete_execution"
  /\ ret.calls = 1

\* a step in which a live client method asks for the transport and sends
LiveOpStarts ==
  /\ ~mock_mode
  /\ \/ BagCardinality(inflight') > BagCardinality(inflight)
     \/ ret'.kind \in {"returned", "raised"} /\ ret'.calls = 1 /\ ret'.exchange = None

\* C7: when close() has returned the client holds no handle, a live
\* operation started right after it creates a new open handle and sends its
\* request on it, and close() without a handle changes nothing.
C7_ReopenAfterClose ==
  [][/\ ret'.kind = "closed" => _client' = None
     /\ (ret.kind = "closed" /\ LiveOpStarts) =>
          /\ Len(handles') = Len(handles) + 1
          /\ handles'[Len(handles')] = "open"
          /\ _client' = Some(Len(handles'))
          /\ BagCardinality(inflight') = BagCardinality(inflight) + 1
     /\ (ret'.kind = "closed" /\ closing' = closing) =>
          UNCHANGED <<_client, handles, inflight>>]_vars

\* a second handle, open and in use, after the first was closed and every
\* close() has returned
C7_Witness ==
  /\ Len(handles) >= 2
  /\ handles[1] = "closed"
  /\ handles[Len(handles)] = "open"
  /\ _client = Some(Len(handles))
  /\ closing = 0
  /\ inflight # EmptyBag

\* C8: every open handle is the one the client holds, so at most one handle
\* is open at any time.
C8_OneOpenHandle ==
  \A h \in 1..Len(handles) : handles[h] = "open" => _client = Some(h)

\* the value a client method returned to the tool call that just ended
HasValue == Ended /\ ret.result # None /\ ret.result[1].ok
Value == ret.result[1].value

\* C9: in mock mode list_workflows returns exactly 2 workflows and
\* get_workflow(x) a workflow with id x and name "Workflow x".
C9_MockWorkflows ==
  (mock_mode /\ HasValue) =>
    /\ ret.tool = "list_workflows" => Len(Value) = 2
    /\ ret.tool = "get_workflow" =>
         /\ Value.id = ret.args.id[1]
         /\ Value.name = "Workflow " \o ret.args.id[1]
         /\ ret.args.id = Some("42") => Value.name = "Workflow 42"

\* get_workflow("42") has returned in mock mode
C9_Witness ==
  /\ mock_mode
  /\ HasValue
  /\ ret.tool = "get_workflow"
  /\ ret.args.id = Some("42")

\* C10: in mock mode create_workflow(name=N) returns a workflow named N; a
\* get_workflow on the id it returned yields that id named after the id, and
\* a repeated get_workflow returns what the one before it returned.
C10_CreateGetRoundTrip ==
  [][(mock_mode /\ ret'.kind \in {"returned", "raised"} /\ ret'.result # None) =>
       /\ ret'.tool = "create_workflow" =>
            /\ ret'.result[1].ok
            /\ ret'.result[1].value.name = ret'.args.name[1]
       /\ (HasValue /\ ret.tool = "create_workflow" /\ ret'.tool = "get_workflow"
           /\ ret'.args.id = Some(Value.id)) =>
            /\ ret'.result[1].value.id = Value.id
            /\ Contains(ret'.result[1].value.name, Value.id)
       /\ (HasValue /\ ret.tool = "get_workflow" /\ ret'.tool = "get_workflow"
           /\ ret'.args.id = ret.args.id) =>
            ret'.result = ret.result]_vars

\* get_workflow has returned for the id that _mock_create_workflow gives out
C10_Witness ==
  /\ mock_mode
  /\ HasValue
  /\ ret.tool = "get_workflow"
  /\ ret.args.id = Some(_mock_create_workflow(WorkflowCreate([NoArgs EXCEPT !.name = Some("N")])).id)

\* C11: in mock mode every execute_workflow call, for every workflow id and
\* with or without input data, returns success=true with data.status =
\* "success", data.workflow_id = the requested id and a non-empty next_steps.
C11_MockExecute ==
  (mock_mode /\ Ended /\ ret.tool = "execute_workflow") =>
    /\ ret.kind = "returned"
    /\ LET r == ret.response[1]
       IN /\ r.success
          /\ r.data[1].status = "success"
          /\ r.data[1].workflow_id = ret.args.id[1]
          /\ r.next_steps # None
          /\ Len(r.next_steps[1]) > 0

\* C12: list_credential_types always returns success=true with the same
\* non-empty mapping, in either mode and whatever the transport handle's
\* state, and it creates no handle, sends no request and calls no client
\* method.
C12_StaticCredentialTypes ==
  [][(ret'.tool = "list_credential_types" /\ ret'.kind # "none") =>
       /\ ret'.kind = "returned"
       /\ ret'.response[1].success
       /\ ret'.response[1].data = Some([credential_types |-> credential_types])
       /\ DOMAIN ret'.response[1].data[1].credential_types # {}
       /\ ret'.response[1].error = None
       /\ ret'.calls = 0
       /\ ret'.requests = 0
       /\ UNCHANGED <<_client, handles, inflight>>]_vars

\* list_credential_types has returned in live mode while the handle the
\* client holds is closed and close() is still suspended in aclose()
C12_Witness ==
  /\ ~mock_mode
  /\ ret.kind = "returned"
  /\ ret.tool = "list_credential_types"
  /\ _client # None
  /\ handles[_client[1]] = "closed"
  /\ closing > 0

\* What the call tool(a) hands back when it runs by itself in the mode and
\* with the logger of this state: x is what the transport delivers for its
\* request (None when it sends none), closed whether the handle it is given
\* has been closed.
Alone(tool, a, x, closed) ==
  IF InfoRaises(logging, tool) THEN RetRaise(tool, a, LoggerTypeError, NoTrail)
  ELSE IF tool = "list_credential_types"
  THEN RetEnvelope(tool, a, SuccessResponse(tool, a, <<>>), NoTrail)
  ELSE IF tool \in ModelTools /\ ~a.valid
  THEN Handler(logging, tool, a,
               Exc("ValidationError", "validation error for request model"),
               NoTrail)
  ELSE IF mock_mode
  THEN Finish(logging, tool, a, MockResult(tool, a), Trail(None, None, None, 1, 0))
  ELSE IF closed
  THEN Finish(logging, tool, a, Raised(ClosedError), Trail(None, None, None, 1, 0))
  ELSE Finish(logging, tool, a, LiveResult(tool, a, x[1]),
              Trail(None, x, None, 1, 1))

\* the ended call was given a handle that had been closed
GotClosedHandle == ~mock_mode /\ ret.calls = 1 /\ ret.exchange = None

\* the credentials an envelope carries in its data
CredentialsIn(tool, r) ==
  IF tool = "list_credentials"
  THEN {r.data[1].credentials[i] : i \in 1..Len(r.data[1].credentials)}
  ELSE {r.data[1].credential}

ActionWord(tool) ==
  CASE tool \in DeleteOps -> "Deleted"
    [] tool = "activate_workflow" -> "Activated"
    [] tool = "deactivate_workflow" -> "Deactivated"
    [] tool = "execute_workflow" -> "Executed"

\* C14: the success message of delete_workflow, delete_execution,
\* delete_credential, activate_workflow, deactivate_workflow and
\* execute_workflow states the action and contains the identifier passed to
\* the tool.
C14_MutatingMessage ==
  (/\ ret.kind = "returned"
   /\ ret.tool \in DeleteOps \cup {"activate_workflow", "deactivate_workflow",
                                   "execute_workflow"}
   /\ ret.response[1].success) =>
    /\ Contains(ret.response[1].message, ActionWord(ret.tool))
    /\ Contains(ret.response[1].message, ret.args.id[1])

\* C15: the success message of get_workflow, get_execution and
\* get_credential contains the resource's name when the resource has one,
\* and the resource's id when it has none.
C15_GetMessage ==
  (/\ ret.kind = "returned"
   /\ ret.tool \in {"get_workflow", "get_execution", "get_credential"}
   /\ ret.response[1].success) =>
    IF "name" \in DOMAIN Value /\ Value.name # ""
    THEN Contains(ret.response[1].message, Value.name)
    ELSE Contains(ret.response[1].message, Value.id)

\* the plural each list tool uses for its resources
Plural(tool) ==
  CASE tool = "list_workflows" -> "workflows"
    [] tool = "list_executions" -> "executions"
    [] tool = "list_credentials" -> "credentials"

\* C16: the success message of list_workflows, list_executions and
\* list_credentials is "Found N <resources>", where N is data.count, the
\* length of the list in data and the number of items the client method
\* returned.
C16_ListMessage ==
  (/\ ret.kind = "returned"
   /\ ret.tool \in {"list_workflows", "list_executions", "list_credentials"}
   /\ ret.response[1].success) =>
    LET r == ret.response[1]
        n == Len(Value)
    IN /\ r.message = "Found " \o ToString(n) \o " " \o Plural(ret.tool)
       /\ r.data[1].count = n
       /\ Len(r.data[1][Plural(ret.tool)]) = n
       /\ r.data[1][Plural(ret.tool)] = Value

\* list_executions has returned the one execution of a live response
C16_Witness ==
  /\ ~mock_mode
  /\ ret.kind = "returned"
  /\ ret.tool = "list_executions"
  /\ ret.response[1].success
  /\ ret.response[1].data[1].count = 1

\* C17: next_steps is set only in the success envelopes of execute_workflow
\* and create_workflow: every other envelope, and every failure envelope,
\* has none.
C17_NextStepsOnlyTwoTools ==
  ret.kind = "returned" =>
    (ret.response[1].next_steps # None =>
       /\ ret.response[1].success
       /\ ret.tool \in {"execute_workflow", "create_workflow"})

\* create_workflow has returned a failure envelope
C17_Witness ==
  /\ ret.kind = "returned"
  /\ ret.tool = "create_workflow"
  /\ ~ret.response[1].success
  /\ ret.response[1].next_steps = None

\* a lookup of the application has just ended
LookedUp == ret.tool \in AppNames

\* C18: over any sequence of get_app() calls and lookups of app and
\* http_app, create_app runs at most once, and once a lookup has ended one
\* client has been constructed and the workflow, execution and credential
\* groups have each registered their 7, 4 and 5 tools against it once.
C18_SingleAssembly ==
  /\ assembly.runs <= 1
  /\ LookedUp =>
       /\ assembly.clients = 1
       /\ Len(assembly.registered) = 3
       /\ \A g \in {"workflow", "execution", "credential"} :
            Cardinality({i \in 1..Len(assembly.registered) :
                           /\ assembly.registered[i].group = g
                           /\ assembly.registered[i].client = 1}) = 1
       /\ \A i \in 1..Len(assembly.registered) :
            Cardinality(assembly.registered[i].tools) =
              (CASE assembly.registered[i].group = "workflow" -> 7
                 [] assembly.registered[i].group = "execution" -> 4
                 [] assembly.registered[i].group = "credential" -> 5)
       /\ Cardinality(UNION {assembly.registered[i].tools :
                               i \in 1..Len(assembly.registered)}) = 16

\* the client holds no handle and every handle it created is closed
NoOpenHandle ==
  /\ _client = None
  /\ \A h \in 1..Len(handles) : handles[h] = "closed"

\* C19: when the body of the lifespan ends, normally or with an exception,
\* client.close() is run; when it has completed no transport handle is open,
\* and none is opened until a tool call starts.
C19_LifespanCloses ==
  [][/\ (lifespan.phase = "running" /\ lifespan'.phase # "running") =>
          \/ lifespan'.phase = "closing" /\ closing' = closing + 1
          \/ lifespan'.phase = "exited" /\ lifespan'.closed
     /\ (lifespan.phase # "exited" /\ lifespan'.phase = "exited") =>
          /\ lifespan'.closed
          /\ ret'.kind = "closed"
          /\ NoOpenHandle'
     /\ (/\ lifespan.phase = "exited"
         /\ lifespan'.phase = "exited"
         /\ NoOpenHandle
         /\ ~LiveOpStarts) => NoOpenHandle']_vars

\* the lifespan has exited after its body raised, and the handle a tool call
\* had opened is closed
C19_Witness ==
  /\ lifespan.phase = "exited"
  /\ lifespan.how = "raised"
  /\ lifespan.closed
  /\ ret.kind = "closed"
  /\ Len(handles) >= 1
  /\ NoOpenHandle

\* C20: tool calls in flight together do not affect each other. A call that
\* resumes with its response hands back what it would hand back had it run
\* alone with that response, and leaves the other calls in flight as they
\* were; a call that ends without suspending hands back what it would alone;
\* and a step of a tool call changes nothing the calls share but the
\* transport handle, which it only creates when there is none.
C20_Independent ==
  [][/\ (ret'.tool \in Tools /\ ret'.exchange # None) =>
          \E c \in BagToSet(inflight) :
            /\ inflight' = inflight (-) SetToBag({c})
            /\ ret' = Alone(c.tool, c.args, ret'.exchange, FALSE)
     /\ (ret'.tool \in Tools /\ ret'.exchange = None) =>
          /\ inflight' = inflight
          /\ ret' = Alone(ret'.tool, ret'.args, None,
                          ~mock_mode /\ ret'.calls = 1)
     /\ (ret'.tool \in Tools \/ BagCardinality(inflight') > BagCardinality(inflight)) =>
          /\ UNCHANGED <<mock_mode, logging, closing, _app, assembly, lifespan>>
          /\ _client' # _client => _client = None
          /\ \A h \in 1..Len(handles) : handles'[h] = handles[h]]_vars

\* a call has returned the envelope for its response while a different call
\* is still suspended on its request
C20_Witness ==
  /\ ret.kind = "returned"
  /\ ret.exchange # None
  /\ \E c \in BagToSet(inflight) : c.tool # ret.tool

\* C21: however close() interleaves with live operations, no operation is
\* handed a transport handle whose closing has begun: none ends with httpx
\* refusing to send on a closed client.
C21_NoClosingHandle ==
  (Ended /\ ~mock_mode /\ ret.calls = 1) =>
    ret.result # Some(Raised(ClosedError))

\* a workflow as the remote holds it before the update
Stored ==
  [Workflow("42", "Old name", FALSE, <<>>) EXCEPT
     !.settings = [timezone |-> "UTC"], !.tags = <<"prod">>]

\* a remote that applies the fields present in a PATCH body and no other
RemoteApply(stored, body) ==
  [f \in DOMAIN stored |-> IF f \in DOMAIN body THEN body[f] ELSE stored[f]]

\* C22: in live mode the PATCH body update_workflow sends has exactly the
\* fields among name, nodes and connections that the caller gave a value,
\* with those values, and never settings or tags; activate_workflow and
\* deactivate_workflow send the active field alone; so a remote that applies
\* the fields present leaves every other field of the workflow as it was.
C22_PatchOnlySupplied ==
  \A c \in BagToSet(inflight) :
    /\ c.tool = "update_workflow" =>
         LET b == Request(c.tool, c.args).json[1]
         IN /\ Request(c.tool, c.args).method = "PATCH"
            /\ DOMAIN b = Supplied(c.args)
            /\ \A f \in DOMAIN b : b[f] = c.args[f][1]
            /\ \A f \in DOMAIN Stored \ Supplied(c.args) :
                 RemoteApply(Stored, b)[f] = Stored[f]
    /\ c.tool \in {"activate_workflow", "deactivate_workflow"} =>
         LET b == Request(c.tool, c.args).json[1]
         IN /\ Request(c.tool, c.args).method = "PATCH"
            /\ b = [active |-> (c.tool = "activate_workflow")]
            /\ \A f \in DOMAIN Stored \ {"active"} :
                 RemoteApply(Stored, b)[f] = Stored[f]

\* update_workflow is in flight with a name given and nodes and connections
\* omitted
C22_Witness ==
  \E c \in BagToSet(inflight) :
    /\ c.tool = "update_workflow"
    /\ c.args.name # None
    /\ c.args.nodes = None
    /\ c.args.connections = None

\* C23: list_executions(workflow_id, limit) returns at most limit executions
\* for every limit >= 0, in mock mode and in live mode, and every execution
\* it returns has the workflow_id it was given.
C23_LimitRespected ==
  (HasValue /\ ret.tool = "list_executions") =>
    /\ Len(Value) <= ret.args.limit[1]
    /\ ret.args.id # None =>
         \A i \in 1..Len(Value) : Value[i].workflow_id = ret.args.id[1]

====
